---- MODULE Spec2Model ----
(***************************************************************************)
(* A model of the aurora client v2 command line: the noun/verb dispatch of *)
(* twitter/aurora/client/cli/__init__.py, the execution context of         *)
(* client/cli/context.py, the create and kill verbs and the shard parser   *)
(* of client/cli/jobs.py, and the older shard parser of cli/jobs.py.       *)
(*                                                                         *)
(* Python strings are sequences of one-character strings; Python values    *)
(* that may be None, a string, an int or a list are tagged records.        *)
(***************************************************************************)
EXTENDS Integers, Sequences, FiniteSets, TLC

VARIABLES
  app,         \* the CommandLine subclass that main() instantiates
  ctx,         \* what the selected noun's create_context returns: None, as
               \* Noun.create_context is written and Job inherits it, or the
               \* context a caller patches in (test_kill.py, line 53)
  pc,          \* position of the single control flow of one invocation
  args,        \* the raw command line: noun and verb tokens, option strings
  nouns,       \* CommandLine.nouns: noun name -> verb name -> verb class
  parser,      \* the argparse grammar built by setup_options_parser
  options,     \* the namespace returned by parse_args
  calls,       \* every call made through the context / scheduler handle
  resp,        \* response code of the last mutating scheduler call
  attempts,    \* polls made by the running wait_until
  outcome,     \* how the verb (or an earlier step) ended
  result,      \* how CommandLine.execute ended
  exitStatus,  \* exit status of the process started by main()
  ptext,       \* study of a function on its own: the input, a shard text
               \* (or None), a job key path or an exit code
  pres         \* study of a function on its own: what each function made of it

vars == <<app, ctx, pc, args, nouns, parser, options, calls, resp, attempts, outcome,
          result, exitStatus, ptext, pres>>

(***************************************************************************)
(* Bounds of the model.                                                    *)
(***************************************************************************)
\* longest --shards string of a modelled command line
MaxShardLen == 2
\* longest text given to the shard parsers on their own
MaxLen == 5
\* polls a wait_until may make before it gives up
MaxAttempts == 3
\* longest job key path given to the job key parsers on their own
MaxPathLen == 7
\* most instances of a job that is restarted
MaxInstances == 5
\* largest --batch-size of a restart
MaxBatchSize == 3
\* writes and loads made on the config files whose loader is studied
MaxLoads == 4
\* registrations made on a command line whose registries are studied
MaxRegistrations == 3

(***************************************************************************)
(* Exit codes, client/cli/__init__.py lines 27-35.                         *)
(***************************************************************************)
EXIT_OK == 0
EXIT_INVALID_CONFIGURATION == 3
EXIT_COMMAND_FAILURE == 4
EXIT_INVALID_COMMAND == 5
EXIT_INVALID_PARAMETER == 6
EXIT_NETWORK_ERROR == 7
EXIT_PERMISSION_VIOLATION == 8
EXIT_TIMEOUT == 9
EXIT_UNKNOWN_ERROR == 20

ExitCodes ==
  {EXIT_OK, EXIT_INVALID_CONFIGURATION, EXIT_COMMAND_FAILURE, EXIT_INVALID_COMMAND,
   EXIT_INVALID_PARAMETER, EXIT_NETWORK_ERROR, EXIT_PERMISSION_VIOLATION,
   EXIT_TIMEOUT, EXIT_UNKNOWN_ERROR}

(***************************************************************************)
(* Python values.                                                          *)
(***************************************************************************)
PyNone == [t |-> "None", v |-> <<>>]
PyStr(s) == [t |-> "str", v |-> s]
PyInt(n) == [t |-> "int", v |-> <<n>>]
PyList(s) == [t |-> "list", v |-> s]
\* a str that is one of the choices of an option
PyChoice(s) == [t |-> "choice", v |-> <<s>>]
\* a str that is given as a job key path
PyPath(s) == [t |-> "path", v |-> s]
PyEq(a, b) == a.t = b.t /\ a.v = b.v

\* How a call ends: it returns a value or raises an exception.  code is the
\* code carried by SystemExit and by Context.CommandError, 0 otherwise.
Return(v) == [kind |-> "return", val |-> v, exc |-> "", code |-> 0]
Raise(e) == [kind |-> "raise", val |-> PyNone, exc |-> e, code |-> 0]
RaiseCode(e, c) == [kind |-> "raise", val |-> PyNone, exc |-> e, code |-> c]
Pending == [kind |-> "pending", val |-> PyNone, exc |-> "", code |-> 0]

(***************************************************************************)
(* str.split, int() and sorted().                                          *)
(***************************************************************************)
Digits == <<"0", "1", "2", "3", "4", "5", "6", "7", "8", "9">>

IsDigit(c) == \E i \in 1..Len(Digits) : Digits[i] = c

DigitVal(c) == (CHOOSE i \in 1..Len(Digits) : Digits[i] = c) - 1

\* str.split(sep): the parts between the separators, at least one part
RECURSIVE split(_, _)
split(s, sep) ==
  IF \A i \in 1..Len(s) : s[i] # sep
    THEN <<s>>
    ELSE LET k == CHOOSE i \in 1..Len(s) :
                    s[i] = sep /\ \A j \in 1..(i - 1) : s[j] # sep
         IN <<SubSeq(s, 1, k - 1)>> \o split(SubSeq(s, k + 1, Len(s)), sep)

\* int(s) succeeds on a non-empty run of decimal digits
IntOk(s) == Len(s) > 0 /\ \A i \in 1..Len(s) : IsDigit(s[i])

RECURSIVE IntVal(_)
IntVal(s) ==
  IF Len(s) = 0 THEN 0
  ELSE 10 * IntVal(SubSeq(s, 1, Len(s) - 1)) + DigitVal(s[Len(s)])

\* range(a, b): a, a+1, ..., b-1
range(a, b) == a..(b - 1)

\* sorted(S) of a set of naturals: its elements in ascending order
sorted(S) ==
  IF S = {} THEN <<>>
  ELSE LET lo == CHOOSE m \in S : \A y \in S : m <= y
           hi == CHOOSE m \in S : \A y \in S : y <= m
       IN SelectSeq([i \in 1..(hi - lo + 1) |-> lo + i - 1], LAMBDA n : n \in S)

(***************************************************************************)
(* The shard parsers.                                                      *)
(***************************************************************************)
\* the range one part contributes: range(int(x[0]), int(x[-1]) + 1)
part_range(part) ==
  LET x == split(part, "-")
  IN range(IntVal(x[1]), IntVal(x[Len(x)]) + 1)

\* int(x[0]) or int(x[-1]) raises ValueError
part_fails(part) ==
  LET x == split(part, "-")
  IN ~IntOk(x[1]) \/ ~IntOk(x[Len(x)])

\* shard_range_parser, the inner function of both parse_shards_into
shard_range_parser(shards) ==
  LET parts == split(shards, ",")
  IN IF \E i \in 1..Len(parts) : part_fails(parts[i])
       THEN Raise("ValueError")
       ELSE Return(PyList(sorted(UNION {part_range(parts[i]) : i \in 1..Len(parts)})))

\* parse_shards_into(values) of client/cli/jobs.py: the loop iterates over
\* values and its body names `value`, which is bound nowhere
parse_shards_into(values) ==
  IF values.t = "None" THEN Raise("TypeError")
  ELSE IF Len(values.v) = 0 THEN Return(PyList(<<>>))
  ELSE Raise("NameError")

\* parse_shards_into(option, opt, value, parser) of cli/jobs.py: the optparse
\* callback; its except clause names optparse, which the module never imports
cli_parse_shards_into(value) ==
  LET r == shard_range_parser(value)
  IN IF r.kind = "raise" /\ r.exc = "ValueError" THEN Raise("NameError") ELSE r

(***************************************************************************)
(* The job key.  AuroraJobKey is imported by the source but defined        *)
(* outside it: from_path follows the specification of JobIdentifier.       *)
(***************************************************************************)
NoKey == [cluster |-> <<>>, role |-> <<>>, env |-> <<>>, name |-> <<>>]

AuroraJobKey_from_path(path) ==
  LET c == split(path, "/")
  IN IF Len(c) = 4 /\ \A i \in 1..4 : Len(c[i]) > 0
       THEN [kind |-> "return", key |-> [cluster |-> c[1], role |-> c[2],
                                         env |-> c[3], name |-> c[4]]]
       ELSE [kind |-> "raise", key |-> NoKey]

\* a parse_aurora_job_key_into that swallows the error of from_path
parse_aurora_job_key_into_lenient(value) ==
  [kind |-> "return", key |-> AuroraJobKey_from_path(value).key]

\* parse_aurora_job_key_into of client/options.py: the key from_path returns
\* is stored as the option's value; AuroraJobKey.Error becomes
\* optparse.OptionValueError and nothing is stored
parse_aurora_job_key_into(value) ==
  IF AuroraJobKey_from_path(value).kind = "raise"
    THEN [kind |-> "raise", key |-> NoKey]
    ELSE [kind |-> "return", key |-> AuroraJobKey_from_path(value).key]

NoKeyResult == [kind |-> "pending", key |-> NoKey]

(***************************************************************************)
(* The registries: CommandLine.nouns and Noun.verbs.                       *)
(***************************************************************************)
NoEntries == [n \in {} |-> ""]

\* a register_verb that keeps the verb a name already has
register_verb_keeps_first(verbs, name, verb) ==
  [n \in (DOMAIN verbs) \cup {name} |-> IF n \in DOMAIN verbs THEN verbs[n] ELSE verb]

\* Noun.register_verb: self.verbs[verb.name] = verb
register_verb(verbs, name, verb) ==
  [n \in (DOMAIN verbs) \cup {name} |-> IF n = name THEN verb ELSE verbs[n]]

\* a register_noun that keeps the noun a name already has and adds the new
\* one under a name of its own
register_noun_adds(reg, name, noun) ==
  LET key == IF name \notin DOMAIN reg THEN name
             ELSE IF name = "job" THEN "job (2)" ELSE "noun (2)"
  IN [n \in (DOMAIN reg) \cup {key} |-> IF n = key THEN noun ELSE reg[n]]

\* CommandLine.register_noun: self.nouns[noun.name] = noun
register_noun(reg, name, noun) ==
  [n \in (DOMAIN reg) \cup {name} |-> IF n = name THEN noun ELSE reg[n]]

\* Job.__init__: the job noun with its create and kill verbs
Job ==
  [verbs |-> register_verb(register_verb(NoEntries, "create", "CreateJobCommand"),
                           "kill", "KillJobCommand")]

\* A noun of another application of the framework (the module docstring's
\* "user get_quota"), with one verb that only has the contract of Verb
UserNoun == [verbs |-> register_verb(NoEntries, "get_quota", "Verb")]

\* a register_nouns whose nouns share one verb registry (verbs kept on the
\* class Noun instead of on each noun)
register_nouns_shared_verbs(a, reg) ==
  LET all == [verbs |-> register_verb(Job.verbs, "get_quota", "Verb")] IN
  IF a = "AuroraCommandLine" THEN register_noun(reg, "job", Job)
  ELSE IF a = "CommandLine" THEN register_noun(reg, "user", UserNoun)
  ELSE register_noun(register_noun(reg, "job", all), "user", all)

\* register_nouns: AuroraCommandLine registers Job; the base method is to be
\* overridden by an application, which registers its nouns one by one: the
\* user noun alone, or, as the application of the module docstring, the job
\* noun and the user noun
register_nouns(a, reg) ==
  IF a = "AuroraCommandLine" THEN register_noun(reg, "job", Job)
  ELSE IF a = "CommandLine" THEN register_noun(reg, "user", UserNoun)
  ELSE register_noun(register_noun(reg, "job", Job), "user", UserNoun)

\* CommandLine.setup_options_parser with Noun.internal_setup_options_parser:
\* one subparser per noun, one per verb of the noun
setup_options_parser(reg) ==
  [n \in DOMAIN reg |-> [v \in DOMAIN reg[n].verbs |-> reg[n].verbs[v]]]

(***************************************************************************)
(* Command lines.                                                          *)
(***************************************************************************)
CREATE_STATES == {"PENDING", "RUNNING", "FINISHED"}

ShardChars == {"0", "1", "3", ",", "-", "a"}

Texts(n) == UNION {[1..k -> ShardChars] : k \in 0..n}

PathChars == {"w", "h", "/"}

PathTexts(n) == UNION {[1..k -> PathChars] : k \in 0..n}

Path(a, b, c) == a \o <<"/">> \o b \o <<"/">> \o c

\* west/bozo/test/hello in short, a path of three components, and a path
\* with an empty component
JobPaths ==
  {Path(<<"w">>, <<"b">>, <<"t">>) \o <<"/", "h">>,
   Path(<<"a">>, <<"b">>, <<"c">>),
   Path(<<"w">>, <<>>, <<"t">>) \o <<"/", "h">>}

Args(n, v, ob, w, sh, j) ==
  [noun |-> n, verb |-> v, open_browser |-> ob, wait_until |-> w,
   shards |-> sh, jobspec |-> j]

CreateArgs ==
  {Args("job", "create", ob, w, PyNone, j) :
     ob \in BOOLEAN, w \in CREATE_STATES \cup {"BOGUS"}, j \in JobPaths}

KillArgs ==
  {Args("job", "kill", ob, "PENDING", sh, j) :
     ob \in BOOLEAN, sh \in {PyNone} \cup {PyStr(s) : s \in Texts(MaxShardLen)},
     j \in JobPaths}

BareArgs ==
  {Args(n, v, FALSE, "PENDING", PyNone, <<>>) :
     n \in {"job", "user"}, v \in {"create", "kill", "get_quota"}}

ArgLists(a) ==
  IF a = "AuroraCommandLine"
    THEN CreateArgs \cup KillArgs
           \cup {x \in BareArgs : x.noun # "job" \/ x.verb = "get_quota"}
    ELSE BareArgs

NoOptions ==
  [noun |-> "", verb |-> "", open_browser |-> FALSE, wait_until |-> "",
   shards |-> PyNone, jobspec |-> NoKey]

\* argparse's parser.error(): usage message, then sys.exit(2)
ArgparseError == RaiseCode("SystemExit", 2)

\* parse_args against the grammar built by setup_options_parser.  The noun
\* and the verb must be choices of their subparsers; --wait_until must be one
\* of CREATE_STATES; jobspec is converted by AuroraJobKey.from_path, and when
\* that raises, argparse reports the error if the exception is a ValueError
\* (caught), and lets it through otherwise.
parse_args(prs, a, caught) ==
  IF a.noun \notin DOMAIN prs THEN ArgparseError
  ELSE IF a.verb \notin DOMAIN prs[a.noun] THEN ArgparseError
  ELSE IF prs[a.noun][a.verb] = "Verb" THEN Return(PyNone)
  ELSE IF prs[a.noun][a.verb] = "CreateJobCommand" /\ a.wait_until \notin CREATE_STATES
    THEN ArgparseError
  ELSE IF AuroraJobKey_from_path(a.jobspec).kind = "raise"
    THEN IF caught THEN ArgparseError ELSE Raise("AuroraJobKey.Error")
  ELSE Return(PyNone)

\* the namespace of a successful parse
namespace(a) ==
  [noun |-> a.noun, verb |-> a.verb, open_browser |-> a.open_browser,
   wait_until |-> a.wait_until, shards |-> a.shards,
   jobspec |-> AuroraJobKey_from_path(a.jobspec).key]

(***************************************************************************)
(* The execution context, client/cli/context.py.                           *)
(***************************************************************************)
Responses == {"OK", "ERROR", "AUTH_FAILED"}

\* a check_and_log_response that exits on AUTH_FAILED only
check_and_log_response_auth_only(r) ==
  IF r = "AUTH_FAILED" THEN RaiseCode("SystemExit", EXIT_NETWORK_ERROR) ELSE Return(PyNone)

\* a check_and_log_response that exits on ERROR only
check_and_log_response_error_only(r) ==
  IF r = "ERROR" THEN RaiseCode("SystemExit", EXIT_NETWORK_ERROR) ELSE Return(PyNone)

\* a check_and_log_response that logs the response and never exits
check_and_log_response_no_exit(r) == Return(PyNone)

\* check_and_log_response: sys.exit(EXIT_NETWORK_ERROR) unless the code is OK
check_and_log_response(r) ==
  IF r # "OK" THEN RaiseCode("SystemExit", EXIT_NETWORK_ERROR) ELSE Return(PyNone)

\* what webbrowser.open_new_tab makes of a url: it opens the page and
\* returns True, returns False when no browser could be launched, or raises
\* webbrowser.Error on a browser control error
BrowserOutcomes == {"True", "False", "webbrowser.Error"}

\* open_page (and open_job_page, handle_open over it): the value of
\* open_new_tab is dropped, an error it raises is not handled
open_page(b) == IF b \in {"True", "False"} THEN Return(PyNone) ELSE Raise(b)

\* AuroraCommandContext.exit: sys.exit(code)
exit(code) == RaiseCode("SystemExit", code)

\* AuroraCommandContext.exit of cli/jobs.py: sys.exit(1), in a module that
\* does not import sys
cli_exit(code) == Raise("NameError")

\* a recorded call: the operation, the job key and shards it was given (when
\* it takes them) and what it answered (when the caller can observe it)
Call(op, key, sh) == [op |-> op, jobspec |-> key, shards |-> sh, ret |-> "None"]

Answered(op, r) == [op |-> op, jobspec |-> NoKey, shards |-> PyNone, ret |-> r]

Count(op) == Cardinality({i \in 1..Len(calls) : calls[i].op = op})

Log(op) == calls' = Append(calls, Call(op, NoKey, PyNone))

LogAnswer(op, r) == calls' = Append(calls, Answered(op, r))

(***************************************************************************)
(* How an invocation ends.                                                 *)
(***************************************************************************)
\* CommandLine.execute, lines 109-113: inside the try, a CommandError becomes
\* the returned code; Noun.execute has no return statement, so a verb that
\* returns makes execute return None; everything else propagates
CommandLine_execute(o, inTry) ==
  IF o.kind = "return" THEN Return(PyNone)
  ELSE IF inTry /\ o.exc = "CommandError" THEN Return(PyInt(o.code))
  ELSE o

\* main(): cmd.execute(sys.argv[1:]) and nothing else.  The interpreter exits
\* with 0 when main returns, with the code of a SystemExit, and with 1 on any
\* other exception
main(r) ==
  IF r.kind = "return" THEN 0
  ELSE IF r.exc = "SystemExit" THEN r.code
  ELSE 1

Finish(o, inTry) ==
  /\ outcome' = o
  /\ result' = CommandLine_execute(o, inTry)
  /\ exitStatus' = main(CommandLine_execute(o, inTry))
  /\ pc' = "done"

Continue(next) ==
  /\ pc' = next
  /\ UNCHANGED <<outcome, result, exitStatus>>

(***************************************************************************)
(* Dispatch: CommandLine.execute and Noun.execute.                         *)
(***************************************************************************)
RegisterNouns ==
  /\ pc = "start"
  /\ nouns' = register_nouns(app, nouns)
  /\ Continue("setup_options_parser")
  /\ UNCHANGED <<app, ctx, args, parser, options, calls, resp, attempts, ptext, pres>>

SetupOptionsParser ==
  /\ pc = "setup_options_parser"
  /\ parser' = setup_options_parser(nouns)
  /\ Continue("parse_args")
  /\ UNCHANGED <<app, ctx, args, nouns, options, calls, resp, attempts, ptext, pres>>

ParseArgs ==
  /\ pc = "parse_args"
  /\ \E caught \in BOOLEAN :
       LET o == parse_args(parser, args, caught)
       IN IF o.kind = "return"
            THEN options' = namespace(args) /\ Continue("create_context")
            ELSE options' = options /\ Finish(o, FALSE)
  /\ UNCHANGED <<app, ctx, args, nouns, parser, calls, resp, attempts, ptext, pres>>

\* lines 104-108 without context.set_options(options): whatever the noun
\* returned goes on to the verb
create_context_unbound ==
  IF options.noun \notin DOMAIN nouns THEN Raise("ValueError") ELSE Return(PyNone)

\* lines 104-108: the noun lookup, noun.create_context() and
\* context.set_options(options), which needs a context that is not None
create_context ==
  IF options.noun \notin DOMAIN nouns THEN Raise("ValueError")
  ELSE IF ctx = "None" THEN Raise("AttributeError")
  ELSE Return(PyNone)

CreateContext ==
  /\ pc = "create_context"
  /\ IF create_context.kind = "return"
       THEN Continue("noun_execute")
       ELSE Finish(create_context, FALSE)
  /\ UNCHANGED <<app, ctx, args, nouns, parser, options, calls, resp, attempts,
                 ptext, pres>>

\* a create that waits on the monitor before it calls create_job
CreateSteps_wait_first ==
  <<"create_get_job_config", "create_get_api", "create_wait", "create_job",
    "create_check", "create_open">>

CreateSteps ==
  <<"create_get_job_config", "create_get_api", "create_job", "create_check",
    "create_open", "create_wait">>

KillSteps ==
  <<"kill_parse_shards", "kill_get_api", "kill_job", "kill_check", "kill_open">>

\* the statements of a verb's execute, in the order of the source
Steps(verb) ==
  IF verb = "CreateJobCommand" THEN CreateSteps
  ELSE IF verb = "KillJobCommand" THEN KillSteps
  ELSE <<"verb_execute">>

\* a Noun.execute that takes the verb out of the registry as it looks it up
NounExecute_pops ==
  /\ pc = "noun_execute"
  /\ IF options.verb \notin DOMAIN nouns[options.noun].verbs
       THEN /\ Finish(Raise("InvalidVerbException"), TRUE)
            /\ UNCHANGED <<nouns, calls>>
       ELSE /\ LogAnswer("execute", nouns[options.noun].verbs[options.verb])
            /\ nouns' = [nouns EXCEPT ![options.noun] =
                           [verbs |-> [v \in DOMAIN nouns[options.noun].verbs
                                              \ {options.verb} |->
                                         nouns[options.noun].verbs[v]]]]
            /\ Continue(Steps(nouns[options.noun].verbs[options.verb])[1])
  /\ UNCHANGED <<app, ctx, args, parser, options, resp, attempts, ptext, pres>>

\* Noun.execute: the verb lookup, then the verb's execute
NounExecute ==
  /\ pc = "noun_execute"
  /\ IF options.verb \notin DOMAIN nouns[options.noun].verbs
       THEN calls' = calls /\ Finish(Raise("InvalidVerbException"), TRUE)
       ELSE /\ LogAnswer("execute", nouns[options.noun].verbs[options.verb])
            /\ Continue(Steps(nouns[options.noun].verbs[options.verb])[1])
  /\ UNCHANGED <<app, ctx, args, nouns, parser, options, resp, attempts, ptext, pres>>

\* the statement after statement cur, or the return of the verb
Advance(steps, cur) ==
  LET i == CHOOSE k \in 1..Len(steps) : steps[k] = cur
  IN IF i = Len(steps) THEN Finish(Return(PyNone), TRUE) ELSE Continue(steps[i + 1])


(***************************************************************************)
(* CreateJobCommand.execute, client/cli/jobs.py lines 77-92.               *)
(***************************************************************************)
\* how get_job_config ends: with the config, or with an error of the loader,
\* which fails with InvalidConfigError on a file it cannot evaluate and with
\* NotFound on a file that does not exist
LoadOutcomes == {"config", "InvalidConfigError", "NotFound"}

\* the try statement around get_job_config: on InvalidConfigError,
\* context.exit(EXIT_INVALID_CONFIGURATION); any other error is not handled
get_job_config(load) ==
  IF load = "config" THEN Return(PyNone)
  ELSE IF load = "InvalidConfigError" THEN exit(EXIT_INVALID_CONFIGURATION)
  ELSE Raise(load)

CreateGetJobConfig ==
  /\ pc = "create_get_job_config"
  /\ \E load \in LoadOutcomes :
       /\ LogAnswer("get_job_config", load)
       /\ IF get_job_config(load).kind = "return"
            THEN Advance(CreateSteps, "create_get_job_config")
            ELSE Finish(get_job_config(load), TRUE)
  /\ UNCHANGED <<app, ctx, args, nouns, parser, options, resp, attempts, ptext, pres>>

\* api = context.get_api(...); monitor = JobMonitor(...)
CreateGetApi ==
  /\ pc = "create_get_api"
  /\ Log("get_api")
  /\ Advance(CreateSteps, "create_get_api")
  /\ UNCHANGED <<app, ctx, args, nouns, parser, options, resp, attempts, ptext, pres>>

\* resp = api.create_job(config)
CreateJob ==
  /\ pc = "create_job"
  /\ \E r \in Responses : resp' = r
  /\ Log("create_job")
  /\ Advance(CreateSteps, "create_job")
  /\ UNCHANGED <<app, ctx, args, nouns, parser, options, attempts, ptext, pres>>

\* a create that sends create_job again when the response is not OK
CreateCheck_retries ==
  /\ pc = "create_check"
  /\ Log("check_and_log_response")
  /\ IF check_and_log_response(resp).kind = "return"
       THEN Advance(CreateSteps, "create_check")
       ELSE Continue("create_job")
  /\ UNCHANGED <<app, ctx, args, nouns, parser, options, resp, attempts, ptext, pres>>

\* context.check_and_log_response(resp)
CreateCheck ==
  /\ pc = "create_check"
  /\ Log("check_and_log_response")
  /\ IF check_and_log_response(resp).kind = "return"
       THEN Advance(CreateSteps, "create_check")
       ELSE Finish(check_and_log_response(resp), TRUE)
  /\ UNCHANGED <<app, ctx, args, nouns, parser, options, resp, attempts, ptext, pres>>

\* if context.options.open_browser: context.open_job_page(api, config)
CreateOpen ==
  /\ pc = "create_open"
  /\ IF options.open_browser
       THEN \E b \in BrowserOutcomes :
              /\ LogAnswer("open_page", b)
              /\ IF open_page(b).kind = "return"
                   THEN Advance(CreateSteps, "create_open")
                   ELSE Finish(open_page(b), TRUE)
       ELSE calls' = calls /\ Advance(CreateSteps, "create_open")
  /\ UNCHANGED <<app, ctx, args, nouns, parser, options, resp, attempts, ptext, pres>>

\* a create that waits on terminal for RUNNING, on running_or_finished for
\* FINISHED
wait_predicate_swapped(w) ==
  IF w = "RUNNING" THEN "terminal"
  ELSE IF w = "FINISHED" THEN "running_or_finished"
  ELSE "none"

\* the predicate --wait_until selects: RUNNING waits on running_or_finished,
\* FINISHED on terminal, anything else does not wait
wait_predicate(w) ==
  IF w = "RUNNING" THEN "running_or_finished"
  ELSE IF w = "FINISHED" THEN "terminal"
  ELSE "none"

CreateWait ==
  /\ pc = "create_wait"
  /\ IF wait_predicate(options.wait_until) = "none"
       THEN calls' = calls /\ Advance(CreateSteps, "create_wait")
       ELSE Log("wait_until") /\ Continue("wait_until")
  /\ UNCHANGED <<app, ctx, args, nouns, parser, options, resp, attempts, ptext, pres>>

\* CreateJobCommand.execute of cli/jobs.py, lines 105-119, for a config that
\* loads and a scheduler that answers OK, by the predicate it waits on:
\* line 111 names JobMonitor, which the module neither imports nor defines;
\* the elif of line 118 names options, which is not bound in execute, and is
\* evaluated whenever --wait_until is not RUNNING
cli_create_execute(w) ==
  LET JobMonitor == Raise("NameError")
      wait == IF w = "RUNNING" THEN Return(PyChoice("running_or_finished"))
              ELSE Raise("NameError")
  IN IF JobMonitor.kind = "raise" THEN JobMonitor ELSE wait

(***************************************************************************)
(* JobMonitor.wait_until.  The monitor is imported by the source but       *)
(* defined outside it: the loop follows the specification of the           *)
(* JobLifecycleMonitor.                                                    *)
(***************************************************************************)
AggregateStates == {"PENDING", "RUNNING", "FINISHED", "UNKNOWN"}

\* predicates that take a failed query for a state that satisfies them
holds_or_unknown(predicate, st) ==
  IF predicate = "running_or_finished" THEN st \in {"RUNNING", "FINISHED", "UNKNOWN"}
  ELSE st \in {"FINISHED", "UNKNOWN"}

\* running_or_finished and terminal on an aggregate state
holds(predicate, st) ==
  IF predicate = "running_or_finished" THEN st \in {"RUNNING", "FINISHED"}
  ELSE st = "FINISHED"

\* one attempt: query the status (a failed query aggregates to UNKNOWN), test
\* the predicate, give up when the budget is spent
MonitorPoll ==
  /\ pc = "wait_until"
  /\ attempts < MaxAttempts
  /\ attempts' = attempts + 1
  /\ \E st \in AggregateStates :
       /\ LogAnswer("get_tasks_status", st)
       /\ IF holds(wait_predicate(options.wait_until), st)
            THEN Advance(CreateSteps, "create_wait")
          ELSE IF attempts + 1 >= MaxAttempts
            THEN Finish(Raise("TimeoutError"), TRUE)
          ELSE Continue("wait_until")
  /\ UNCHANGED <<app, ctx, args, nouns, parser, options, resp, ptext, pres>>

(***************************************************************************)
(* KillJobCommand.execute, client/cli/jobs.py lines 111-117.               *)
(***************************************************************************)
\* shards = parse_shards_into(context.options.shards)
KillParseShards ==
  /\ pc = "kill_parse_shards"
  /\ IF parse_shards_into(options.shards).kind = "return"
       THEN Advance(KillSteps, "kill_parse_shards")
       ELSE Finish(parse_shards_into(options.shards), TRUE)
  /\ UNCHANGED <<app, ctx, args, nouns, parser, options, calls, resp, attempts,
                 ptext, pres>>

\* api = context.get_api(context.options.jobspec.cluster())
KillGetApi ==
  /\ pc = "kill_get_api"
  /\ Log("get_api")
  /\ Advance(KillSteps, "kill_get_api")
  /\ UNCHANGED <<app, ctx, args, nouns, parser, options, resp, attempts, ptext, pres>>

\* resp = api.kill_job(context.options.jobspec, shards, config=...)
KillJob ==
  /\ pc = "kill_job"
  /\ \E r \in Responses : resp' = r
  /\ calls' = Append(calls, Call("kill_job", options.jobspec,
                                 parse_shards_into(options.shards).val))
  /\ Advance(KillSteps, "kill_job")
  /\ UNCHANGED <<app, ctx, args, nouns, parser, options, attempts, ptext, pres>>

\* context.check_and_log_response(resp)
KillCheck ==
  /\ pc = "kill_check"
  /\ Log("check_and_log_response")
  /\ IF check_and_log_response(resp).kind = "return"
       THEN Advance(KillSteps, "kill_check")
       ELSE Finish(check_and_log_response(resp), TRUE)
  /\ UNCHANGED <<app, ctx, args, nouns, parser, options, resp, attempts, ptext, pres>>

\* context.handle_open(api), whatever --open-browser says
KillOpen ==
  /\ pc = "kill_open"
  /\ \E b \in BrowserOutcomes :
       /\ LogAnswer("open_page", b)
       /\ IF open_page(b).kind = "return"
            THEN Advance(KillSteps, "kill_open")
            ELSE Finish(open_page(b), TRUE)
  /\ UNCHANGED <<app, ctx, args, nouns, parser, options, resp, attempts, ptext, pres>>

(***************************************************************************)
(* A verb of another application: Verb.execute is overridden, and the      *)
(* override returns, raises Context.CommandError with some code, or raises *)
(* something else.                                                         *)
(***************************************************************************)
VerbOutcomes ==
  {Return(PyNone), Raise("RuntimeError")}
    \cup {RaiseCode("CommandError", c) : c \in ExitCodes}

VerbExecute ==
  /\ pc = "verb_execute"
  /\ \E o \in VerbOutcomes : Finish(o, TRUE)
  /\ UNCHANGED <<app, ctx, args, nouns, parser, options, calls, resp, attempts,
                 ptext, pres>>

(***************************************************************************)
(* One invocation of main().                                               *)
(***************************************************************************)
NoParse ==
  [inner |-> Pending, v2 |-> Pending, old |-> Pending, exit |-> Pending,
   cli_exit |-> Pending, cli_create |-> Pending, from_path |-> NoKeyResult, job_key_into |-> NoKeyResult]

Init ==
  /\ app \in {"AuroraCommandLine", "CommandLine", "JobAndUserCommandLine"}
  /\ ctx \in {"None", "Context"}
  /\ pc = "start"
  /\ args \in ArgLists(app)
  /\ nouns = NoEntries
  /\ parser = NoEntries
  /\ options = NoOptions
  /\ calls = <<>>
  /\ resp = "OK"
  /\ attempts = 0
  /\ outcome = Pending
  /\ result = Pending
  /\ exitStatus = 0
  /\ ptext = PyNone
  /\ pres = NoParse

Next ==
  \/ RegisterNouns
  \/ SetupOptionsParser
  \/ ParseArgs
  \/ CreateContext
  \/ NounExecute
  \/ CreateGetJobConfig
  \/ CreateGetApi
  \/ CreateJob
  \/ CreateCheck
  \/ CreateOpen
  \/ CreateWait
  \/ MonitorPoll
  \/ KillParseShards
  \/ KillGetApi
  \/ KillJob
  \/ KillCheck
  \/ KillOpen
  \/ VerbExecute

Spec == Init /\ [][Next]_vars

(***************************************************************************)
(* Functions on their own: each shard parser is applied once to a text,    *)
(* each exit once to an exit code.                                         *)
(***************************************************************************)
InitParse ==
  /\ app = "AuroraCommandLine"
  /\ ctx = "None"
  /\ pc = "parsers"
  /\ args = Args("job", "kill", FALSE, "PENDING", PyNone, <<>>)
  /\ nouns = NoEntries
  /\ parser = NoEntries
  /\ options = NoOptions
  /\ calls = <<>>
  /\ resp = "OK"
  /\ attempts = 0
  /\ outcome = Pending
  /\ result = Pending
  /\ exitStatus = 0
  /\ ptext \in {PyNone} \cup {PyStr(s) : s \in Texts(MaxLen)}
                \cup {PyInt(c) : c \in ExitCodes}
                \cup {PyChoice(w) : w \in CREATE_STATES}
  /\ pres = NoParse

ApplyShardRangeParser ==
  /\ ptext.t = "str"
  /\ pres.inner = Pending
  /\ pres' = [pres EXCEPT !.inner = shard_range_parser(ptext.v)]
  /\ UNCHANGED <<app, ctx, pc, args, nouns, parser, options, calls, resp, attempts,
                 outcome, result, exitStatus, ptext>>

ApplyParseShardsInto ==
  /\ ptext.t \in {"None", "str"}
  /\ pres.v2 = Pending
  /\ pres' = [pres EXCEPT !.v2 = parse_shards_into(ptext)]
  /\ UNCHANGED <<app, ctx, pc, args, nouns, parser, options, calls, resp, attempts,
                 outcome, result, exitStatus, ptext>>

ApplyCliParseShardsInto ==
  /\ ptext.t = "str"
  /\ pres.old = Pending
  /\ pres' = [pres EXCEPT !.old = cli_parse_shards_into(ptext.v)]
  /\ UNCHANGED <<app, ctx, pc, args, nouns, parser, options, calls, resp, attempts,
                 outcome, result, exitStatus, ptext>>

ApplyExit ==
  /\ ptext.t = "int"
  /\ pres.exit = Pending
  /\ pres' = [pres EXCEPT !.exit = exit(ptext.v[1])]
  /\ UNCHANGED <<app, ctx, pc, args, nouns, parser, options, calls, resp, attempts,
                 outcome, result, exitStatus, ptext>>

ApplyCliExit ==
  /\ ptext.t = "int"
  /\ pres.cli_exit = Pending
  /\ pres' = [pres EXCEPT !.cli_exit = cli_exit(ptext.v[1])]
  /\ UNCHANGED <<app, ctx, pc, args, nouns, parser, options, calls, resp, attempts,
                 outcome, result, exitStatus, ptext>>

ApplyCliCreateExecute ==
  /\ ptext.t = "choice"
  /\ pres.cli_create = Pending
  /\ pres' = [pres EXCEPT !.cli_create = cli_create_execute(ptext.v[1])]
  /\ UNCHANGED <<app, ctx, pc, args, nouns, parser, options, calls, resp, attempts,
                 outcome, result, exitStatus, ptext>>

NextParse ==
  \/ ApplyShardRangeParser
  \/ ApplyParseShardsInto
  \/ ApplyCliParseShardsInto
  \/ ApplyExit
  \/ ApplyCliExit
  \/ ApplyCliCreateExecute

SpecParse == InitParse /\ [][NextParse]_vars

(***************************************************************************)
(* The job key parsers on their own: each is applied once to a path.       *)
(***************************************************************************)
InitKey ==
  /\ app = "AuroraCommandLine"
  /\ ctx = "None"
  /\ pc = "parsers"
  /\ args = Args("job", "kill", FALSE, "PENDING", PyNone, <<>>)
  /\ nouns = NoEntries
  /\ parser = NoEntries
  /\ options = NoOptions
  /\ calls = <<>>
  /\ resp = "OK"
  /\ attempts = 0
  /\ outcome = Pending
  /\ result = Pending
  /\ exitStatus = 0
  /\ ptext \in {PyPath(s) : s \in PathTexts(MaxPathLen)}
  /\ pres = NoParse

ApplyFromPath ==
  /\ ptext.t = "path"
  /\ pres.from_path = NoKeyResult
  /\ pres' = [pres EXCEPT !.from_path = AuroraJobKey_from_path(ptext.v)]
  /\ UNCHANGED <<app, ctx, pc, args, nouns, parser, options, calls, resp, attempts,
                 outcome, result, exitStatus, ptext>>

ApplyParseAuroraJobKeyInto ==
  /\ ptext.t = "path"
  /\ pres.job_key_into = NoKeyResult
  /\ pres' = [pres EXCEPT !.job_key_into = parse_aurora_job_key_into(ptext.v)]
  /\ UNCHANGED <<app, ctx, pc, args, nouns, parser, options, calls, resp, attempts,
                 outcome, result, exitStatus, ptext>>

NextKey ==
  \/ ApplyFromPath
  \/ ApplyParseAuroraJobKeyInto

SpecKey == InitKey /\ [][NextKey]_vars

(***************************************************************************)
(* The registries on their own: a command line on which nouns are          *)
(* registered, and verbs on the nouns it holds, in any order and under any *)
(* names.  calls is the log of the registrations.                          *)
(***************************************************************************)
NounNames == {"job", "user"}

VerbNames == {"create", "kill"}

VerbClasses == {"CreateJobCommand", "KillJobCommand"}

\* nouns as they are when they are registered: with the verbs their
\* constructors registered, or with none
NounObjects == {Job, UserNoun, [verbs |-> NoEntries]}

Registration(op, noun, verb, verbs, cls) ==
  [op |-> op, noun |-> noun, verb |-> verb, verbs |-> verbs, cls |-> cls]

InitReg ==
  /\ app = "CommandLine"
  /\ ctx = "None"
  /\ pc = "registry"
  /\ args = Args("job", "kill", FALSE, "PENDING", PyNone, <<>>)
  /\ nouns = NoEntries
  /\ parser = NoEntries
  /\ options = NoOptions
  /\ calls = <<>>
  /\ resp = "OK"
  /\ attempts = 0
  /\ outcome = Pending
  /\ result = Pending
  /\ exitStatus = 0
  /\ ptext = PyNone
  /\ pres = NoParse

\* cmd.register_noun(noun), noun.name being name
RegisterNounCall ==
  /\ pc = "registry"
  /\ Len(calls) < MaxRegistrations
  /\ \E name \in NounNames, noun \in NounObjects :
       /\ nouns' = register_noun(nouns, name, noun)
       /\ calls' = Append(calls, Registration("register_noun", name, "", noun.verbs, ""))
  /\ UNCHANGED <<app, ctx, pc, args, parser, options, resp, attempts, outcome, result,
                 exitStatus, ptext, pres>>

\* noun.register_verb(verb) on a noun the command line holds, verb.name
\* being name
RegisterVerbCall ==
  /\ pc = "registry"
  /\ Len(calls) < MaxRegistrations
  /\ \E n \in DOMAIN nouns, name \in VerbNames, verb \in VerbClasses :
       /\ nouns' = [nouns EXCEPT ![n] = [verbs |-> register_verb(nouns[n].verbs, name, verb)]]
       /\ calls' = Append(calls, Registration("register_verb", n, name, NoEntries, verb))
  /\ UNCHANGED <<app, ctx, pc, args, parser, options, resp, attempts, outcome, result,
                 exitStatus, ptext, pres>>

NextReg ==
  \/ RegisterNounCall
  \/ RegisterVerbCall

SpecReg == InitReg /\ [][NextReg]_vars

(***************************************************************************)
(* What the claims speak of.                                               *)
(***************************************************************************)
Done == pc = "done"

RemoteOps == {"get_api", "create_job", "kill_job", "get_tasks_status"}

RemoteCalls == Cardinality({i \in 1..Len(calls) : calls[i].op \in RemoteOps})

MutatingOps == {"create_job", "kill_job"}

PollOps == {"wait_until", "get_tasks_status"}

\* the invocation yields code c: execute returns it or the process exits with it
YieldsCode(c) ==
  \/ result.kind = "return" /\ PyEq(result.val, PyInt(c))
  \/ result.kind = "raise" /\ result.exc = "SystemExit" /\ result.code = c

\* a token of a shard string: a non-negative integer, or a range a-b, a <= b
TokenOk(p) ==
  LET x == split(p, "-")
  IN \/ Len(x) = 1 /\ IntOk(x[1])
     \/ Len(x) = 2 /\ IntOk(x[1]) /\ IntOk(x[2]) /\ IntVal(x[1]) <= IntVal(x[2])

\* a malformed token: a non-numeric endpoint, or more than two parts
TokenMalformed(p) ==
  LET x == split(p, "-")
  IN Len(x) > 2 \/ \E i \in 1..Len(x) : ~IntOk(x[i])

Tokens(s) == LET parts == split(s, ",") IN {parts[i] : i \in 1..Len(parts)}

WellFormedText(s) == Len(s) > 0 /\ \A p \in Tokens(s) : TokenOk(p)

MalformedText(s) == Len(s) > 0 /\ \E p \in Tokens(s) : TokenMalformed(p)

\* the integers a token names: the index, or every index from a to b
TokenSet(p) ==
  LET x == split(p, "-") IN IntVal(x[1])..IntVal(x[Len(x)])

\* the integers between the endpoints of a range token, in either order
TokenSpan(p) ==
  LET x == split(p, "-")
      a == IntVal(x[1])
      b == IntVal(x[Len(x)])
  IN IF a <= b THEN a..b ELSE b..a

Elements(q) == {q[i] : i \in 1..Len(q)}

StrictlyAscending(q) == \A i \in 1..(Len(q) - 1) : q[i] < q[i + 1]

\* the list the claims expect of a well-formed shard string
IsExpansionOf(q, s) ==
  StrictlyAscending(q) /\ Elements(q) = UNION {TokenSet(p) : p \in Tokens(s)}

\* the shard argument the claims expect: None when --shards is absent
ShardsAsExpected(got, sh) ==
  IF sh.t = "None" THEN got.t = "None"
  ELSE got.t = "list" /\ IsExpansionOf(got.v, sh.v)

ShardsGiven(sh) == sh.t = "None" \/ WellFormedText(sh.v)

KeyOk(path) == AuroraJobKey_from_path(path).kind = "return"

KillInvocation == app = "AuroraCommandLine" /\ args.noun = "job" /\ args.verb = "kill"

CreateInvocation == app = "AuroraCommandLine" /\ args.noun = "job" /\ args.verb = "create"

(***************************************************************************)
(* C1: a `job kill [--shards=S] <key>` with a well-formed S and key, run   *)
(* with the context the kill test supplies, calls kill_job exactly once,   *)
(* with the parsed key and the ascending expansion of S, or None when      *)
(* --shards is absent.                                                     *)
(***************************************************************************)
C1_KillCallsKillJobOnce ==
  (Done /\ KillInvocation /\ ctx = "Context" /\ ShardsGiven(args.shards)
        /\ KeyOk(args.jobspec))
    => /\ Count("kill_job") = 1
       /\ \A i \in 1..Len(calls) :
            calls[i].op = "kill_job"
              => /\ calls[i].jobspec = AuroraJobKey_from_path(args.jobspec).key
                 /\ ShardsAsExpected(calls[i].shards, args.shards)

UnknownCommand ==
  \/ args.noun \notin DOMAIN nouns
  \/ args.noun \in DOMAIN nouns /\ args.verb \notin DOMAIN nouns[args.noun].verbs

C4_UnknownCommandYieldsInvalidCommand ==
  (Done /\ UnknownCommand) => (YieldsCode(EXIT_INVALID_COMMAND) /\ RemoteCalls = 0)

(***************************************************************************)
(* C5: when a verb raises CommandError, the dispatcher catches it and the  *)
(* exit code of the process is the code of the error.                      *)
(***************************************************************************)
C5_CommandErrorCodeIsExitCode ==
  (Done /\ outcome.kind = "raise" /\ outcome.exc = "CommandError")
    => /\ result = Return(PyInt(outcome.code))
       /\ exitStatus = outcome.code

(***************************************************************************)
(* C6: a malformed shard string, a malformed job key or an option value    *)
(* out of its range ends the invocation with EXIT_INVALID_PARAMETER (or    *)
(* EXIT_INVALID_COMMAND) before any remote call.                           *)
(***************************************************************************)
InputError ==
  \/ KillInvocation /\ (~KeyOk(args.jobspec)
                          \/ (args.shards.t = "str" /\ MalformedText(args.shards.v)))
  \/ CreateInvocation /\ (~KeyOk(args.jobspec) \/ args.wait_until \notin CREATE_STATES)

C6_InputErrorsRejectedBeforeRemoteCalls ==
  (Done /\ ctx = "Context" /\ InputError)
    => /\ YieldsCode(EXIT_INVALID_PARAMETER) \/ YieldsCode(EXIT_INVALID_COMMAND)
       /\ RemoteCalls = 0

(***************************************************************************)
(* C7: on a shard string of well-formed tokens, each parse_shards_into     *)
(* returns the strictly ascending list of the union of the indices and     *)
(* ranges the string names.                                                *)
(***************************************************************************)
ParsedAsExpansion(r) == r.kind = "return" /\ r.val.t = "list" /\ IsExpansionOf(r.val.v, ptext.v)

C7_WellFormedShardsParseToSortedUnion ==
  (ptext.t = "str" /\ WellFormedText(ptext.v))
    => /\ pres.v2 # Pending => ParsedAsExpansion(pres.v2)
       /\ pres.old # Pending => ParsedAsExpansion(pres.old)

(***************************************************************************)
(* C8: parse_shards_into of client/cli/jobs.py returns None on None and on *)
(* the empty string: never an empty list, never an error.                  *)
(***************************************************************************)
C8_NoneAndEmptyParseToNone ==
  ((ptext.t = "None" \/ (ptext.t = "str" /\ Len(ptext.v) = 0)) /\ pres.v2 # Pending)
    => pres.v2 = Return(PyNone)

(***************************************************************************)
(* C9: shard_range_parser fails with ValueError on every string that holds *)
(* a malformed token; it never accepts such a token as a range.            *)
(***************************************************************************)
C9_MalformedTokensFail ==
  (ptext.t = "str" /\ MalformedText(ptext.v) /\ pres.inner # Pending)
    => pres.inner = Raise("ValueError")

(***************************************************************************)
(* C10: when shard_range_parser returns a list, the list holds every       *)
(* integer between the two endpoints of every range token, whichever       *)
(* endpoint is the larger.                                                 *)
(***************************************************************************)
NumericText(s) == Len(s) > 0 /\ \A p \in Tokens(s) : ~TokenMalformed(p)

C10_NoIndexSilentlyDropped ==
  (ptext.t = "str" /\ NumericText(ptext.v) /\ pres.inner.kind = "return")
    => \A p \in Tokens(ptext.v) : TokenSpan(p) \subseteq Elements(pres.inner.val.v)

(***************************************************************************)
(* Beside the claims: what does hold of the two defects above.             *)
(* shard_range_parser itself, and the optparse callback of cli/jobs.py     *)
(* that calls it, expand well-formed strings as C7 says; CommandLine.execute*)
(* returns the code of a CommandError.                                     *)
(***************************************************************************)
ShardRangeParserExpands ==
  (ptext.t = "str" /\ WellFormedText(ptext.v))
    => /\ pres.inner # Pending => ParsedAsExpansion(pres.inner)
       /\ pres.old # Pending => ParsedAsExpansion(pres.old)

CommandErrorCodeIsReturned ==
  (Done /\ outcome.kind = "raise" /\ outcome.exc = "CommandError")
    => result = Return(PyInt(outcome.code))

(***************************************************************************)
(* The monitor, as the claims speak of it.                                 *)
(***************************************************************************)
\* the status polls of the run, in order, each with the state it observed
Polls == SelectSeq(calls, LAMBDA c : c.op = "get_tasks_status")

\* the aggregate states that end a wait asked for with --wait_until w
Satisfies(w, st) ==
  \/ w = "RUNNING" /\ st \in {"RUNNING", "FINISHED"}
  \/ w = "FINISHED" /\ st = "FINISHED"

Waited == \E i \in 1..Len(calls) : calls[i].op = "wait_until"

(***************************************************************************)
(* C11: spec-modelled monitor.  The poll that first observes a state       *)
(* satisfying the predicate of --wait_until is the last poll of the run:   *)
(* wait_until returns at once, with success, after exactly that many       *)
(* polls.  [PENDING, PENDING, RUNNING] under running-or-finished makes 3.  *)
(***************************************************************************)
C11_ReturnsAtFirstSatisfyingPoll ==
  \A k \in 1..Len(Polls) :
    Satisfies(args.wait_until, Polls[k].ret)
      => /\ k = Len(Polls)
         /\ attempts = k
         /\ Done
         /\ outcome = Return(PyNone)

C11_Witness ==
  /\ Done
  /\ args.wait_until = "RUNNING"
  /\ Len(Polls) = 3
  /\ Polls[1].ret = "PENDING" /\ Polls[2].ret = "PENDING" /\ Polls[3].ret = "RUNNING"
  /\ outcome = Return(PyNone)

(***************************************************************************)
(* C12: spec-modelled monitor.  The wait loop stops: a wait whose          *)
(* predicate no poll satisfies ends after exactly MaxAttempts polls with   *)
(* TimeoutError, and the invocation yields EXIT_TIMEOUT; the loop never    *)
(* goes on past its budget.                                                *)
(***************************************************************************)
NeverSatisfied == \A k \in 1..Len(Polls) : ~Satisfies(args.wait_until, Polls[k].ret)

C12_TimeoutAfterBudgetExitsTimeout ==
  /\ pc = "wait_until" => attempts < MaxAttempts
  /\ (Done /\ Waited /\ NeverSatisfied)
       => /\ Len(Polls) = MaxAttempts
          /\ outcome = Raise("TimeoutError")
          /\ YieldsCode(EXIT_TIMEOUT)
          /\ exitStatus = EXIT_TIMEOUT

\* what does hold of C12: the budget and the predicate are the two ways out
\* of the loop, and the budget ends it with TimeoutError after MaxAttempts
\* polls
MonitorFailsAfterBudget ==
  /\ pc = "wait_until" => attempts < MaxAttempts
  /\ Len(Polls) = attempts
  /\ (Done /\ Waited /\ NeverSatisfied)
       => (Len(Polls) = MaxAttempts /\ outcome = Raise("TimeoutError"))
  /\ (Done /\ Waited /\ ~NeverSatisfied) => outcome = Return(PyNone)

(***************************************************************************)
(* C13: spec-modelled monitor.  A status query that fails (the aggregate   *)
(* is UNKNOWN) is one attempt of the budget like any other; after it the   *)
(* loop polls again while attempts remain, and ends with TimeoutError when *)
(* it was the last attempt: a failed query never ends the wait early and   *)
(* never with success.                                                     *)
(***************************************************************************)
C13_FailedQueryIsRetried ==
  /\ Len(Polls) = attempts
  /\ (Len(Polls) > 0 /\ Polls[Len(Polls)].ret = "UNKNOWN")
       => IF Len(Polls) < MaxAttempts
            THEN pc = "wait_until" /\ outcome = Pending
            ELSE Done /\ outcome = Raise("TimeoutError")

C13_Witness ==
  /\ Done
  /\ Len(Polls) = 3
  /\ Polls[1].ret = "UNKNOWN" /\ Polls[2].ret = "UNKNOWN" /\ Polls[3].ret = "FINISHED"
  /\ args.wait_until = "FINISHED"
  /\ outcome = Return(PyNone)

(***************************************************************************)
(* C14: when get_job_config fails in a job create, the invocation ends     *)
(* there with EXIT_INVALID_CONFIGURATION, exit status 3, and the run makes *)
(* no scheduler call: no get_api, no create_job, no poll.                  *)
(***************************************************************************)
LoadAnswers == {calls[i].ret : i \in {j \in 1..Len(calls) : calls[j].op = "get_job_config"}}

LoadFailed == LoadAnswers \ {"config"} # {}

C14_LoadFailureExitsInvalidConfiguration ==
  LoadFailed
    => /\ Done
       /\ result = RaiseCode("SystemExit", EXIT_INVALID_CONFIGURATION)
       /\ exitStatus = EXIT_INVALID_CONFIGURATION
       /\ RemoteCalls = 0

\* what does hold of C14: no load failure is followed by a scheduler call,
\* and the failure create handles, InvalidConfigError, exits with status 3
LoadFailureStopsCreate ==
  LoadFailed
    => /\ Done
       /\ RemoteCalls = 0
       /\ "InvalidConfigError" \in LoadAnswers
            => /\ result = RaiseCode("SystemExit", EXIT_INVALID_CONFIGURATION)
               /\ exitStatus = EXIT_INVALID_CONFIGURATION

(***************************************************************************)
(* C15: for every exit code c, exit(c) of the execution context, in        *)
(* client/cli/context.py and in cli/jobs.py, ends the process, and the     *)
(* exit status of the process is c.                                        *)
(***************************************************************************)
EndsProcessWith(o, c) == o.kind = "raise" /\ main(o) = c

C15_ExitEndsProcessWithCode ==
  ptext.t = "int"
    => /\ pres.exit # Pending => EndsProcessWith(pres.exit, ptext.v[1])
       /\ pres.cli_exit # Pending => EndsProcessWith(pres.cli_exit, ptext.v[1])

\* what does hold of C15: exit of client/cli/context.py, the context of the
\* verbs main() dispatches to
ContextExitEndsProcessWithCode ==
  (ptext.t = "int" /\ pres.exit # Pending) => EndsProcessWith(pres.exit, ptext.v[1])

(***************************************************************************)
(* C16: when the scheduler call of a create or a kill has succeeded and    *)
(* the browser then fails to open, the command ends as it does when the    *)
(* browser opens: kill returns, create makes the wait it was asked for and *)
(* returns (or times out in that wait); the failure of the browser is      *)
(* never the outcome.                                                      *)
(***************************************************************************)
BrowserAnswers == {calls[i].ret : i \in {j \in 1..Len(calls) : calls[j].op = "open_page"}}

BrowserFailed == BrowserAnswers \ {"True"} # {}

EndsAsWithoutBrowser ==
  /\ KillInvocation => outcome = Return(PyNone)
  /\ CreateInvocation
       => /\ args.wait_until \in {"RUNNING", "FINISHED"} => Waited
          /\ \/ outcome = Return(PyNone)
             \/ outcome = Raise("TimeoutError") /\ Waited /\ NeverSatisfied

C16_BrowserFailureKeepsOutcome ==
  (Done /\ resp = "OK" /\ BrowserFailed) => EndsAsWithoutBrowser

\* what does hold of C16: a browser that reports its failure by returning
\* False changes nothing
UnopenedBrowserKeepsOutcome ==
  (Done /\ resp = "OK" /\ BrowserAnswers = {"False"}) => EndsAsWithoutBrowser

(***************************************************************************)
(* C17: spec-modelled from_path.  The job key parsers succeed exactly on   *)
(* the paths made of four non-empty components separated by '/', and then  *)
(* the key holds those four components verbatim: joined again by '/' they  *)
(* are the path.  On every other path they fail and yield no key, not even *)
(* a partly filled one.                                                    *)
(***************************************************************************)
Slashes(s) == {i \in 1..Len(s) : s[i] = "/"}

\* three separators, none at either end, no two adjacent
FourComponents(s) ==
  /\ Cardinality(Slashes(s)) = 3
  /\ 1 \notin Slashes(s) /\ Len(s) \notin Slashes(s)
  /\ \A i \in Slashes(s) : i + 1 \notin Slashes(s)

Component(c) == Len(c) > 0 /\ Slashes(c) = {}

IsKeyOf(k, s) ==
  /\ Component(k.cluster) /\ Component(k.role) /\ Component(k.env) /\ Component(k.name)
  /\ Path(k.cluster, k.role, k.env) \o <<"/">> \o k.name = s

ParsedAsKey(r, s) ==
  IF FourComponents(s) THEN r.kind = "return" /\ IsKeyOf(r.key, s)
  ELSE r.kind = "raise" /\ r.key = NoKey

C17_FromPathFourComponents ==
  ptext.t = "path"
    => /\ pres.from_path # NoKeyResult => ParsedAsKey(pres.from_path, ptext.v)
       /\ pres.job_key_into # NoKeyResult => ParsedAsKey(pres.job_key_into, ptext.v)

C17_Witness ==
  /\ ptext = PyPath(<<"w", "/", "h", "/", "h", "/", "w">>)
  /\ pres.from_path.kind = "return"
  /\ pres.job_key_into.kind = "return"
  /\ pres.job_key_into.key = [cluster |-> <<"w">>, role |-> <<"h">>, env |-> <<"h">>,
                               name |-> <<"w">>]

(***************************************************************************)
(* C18: after any sequence of register_noun and register_verb calls, the   *)
(* noun registry holds exactly the names nouns were registered under, each *)
(* once, and under each name the entry registered last: a noun's verb      *)
(* registry maps a name to the verb registered last under it on that noun, *)
(* and otherwise to what the noun held when it was registered.             *)
(***************************************************************************)
Latest(S) == IF S = {} THEN 0 ELSE CHOOSE m \in S : \A y \in S : y <= m

\* the last registration of a noun under name n, 0 when there is none
LastNoun(n) ==
  Latest({i \in 1..Len(calls) : calls[i].op = "register_noun" /\ calls[i].noun = n})

\* the last registration of a verb under name v on the noun now held under n
LastVerb(n, v) ==
  Latest({i \in (LastNoun(n) + 1)..Len(calls) :
            calls[i].op = "register_verb" /\ calls[i].noun = n /\ calls[i].verb = v})

AllVerbNames == VerbNames \cup UNION {DOMAIN o.verbs : o \in NounObjects}

C18_LastRegistrationWins ==
  /\ DOMAIN nouns = {n \in NounNames : LastNoun(n) > 0}
  /\ \A n \in DOMAIN nouns :
       /\ DOMAIN nouns[n].verbs \subseteq AllVerbNames
       /\ \A v \in AllVerbNames :
            IF LastVerb(n, v) > 0
              THEN /\ v \in DOMAIN nouns[n].verbs
                   /\ nouns[n].verbs[v] = calls[LastVerb(n, v)].cls
              ELSE /\ v \in DOMAIN nouns[n].verbs <=> v \in DOMAIN calls[LastNoun(n)].verbs
                   /\ v \in DOMAIN nouns[n].verbs
                        => nouns[n].verbs[v] = calls[LastNoun(n)].verbs[v]

C18_Witness ==
  /\ Len(calls) = 3
  /\ calls[1] = Registration("register_noun", "job", "", Job.verbs, "")
  /\ calls[2] = Registration("register_verb", "job", "kill", NoEntries, "KillJobCommand")
  /\ calls[3] = Registration("register_verb", "job", "kill", NoEntries, "CreateJobCommand")
  /\ nouns["job"].verbs["kill"] = "CreateJobCommand"
  /\ nouns["job"].verbs["create"] = "CreateJobCommand"

(***************************************************************************)
(* C19: once the nouns are registered and the grammar is built, no step of *)
(* the invocation changes the noun registry or a noun's verb registry:     *)
(* parse_args, the creation of the context and the verb leave them as they *)
(* are.                                                                    *)
(***************************************************************************)
Configured == pc \notin {"start", "setup_options_parser", "parsers", "registry"}

C19_RegistriesUnchangedOnceConfigured == [][Configured => nouns' = nouns]_vars

C19_Witness ==
  /\ Done
  /\ Count("execute") = 1
  /\ Count("create_job") = 1
  /\ outcome = Return(PyNone)
  /\ nouns = register_noun(NoEntries, "job", Job)

(***************************************************************************)
(* C20: a verb's execute is invoked only when every noun and verb is       *)
(* registered, the grammar is built from them, the arguments are parsed,   *)
(* the noun and the verb were found in their registries and the options    *)
(* are bound onto the context the noun created; it is the verb registered  *)
(* under the names given, it comes before every call the verb makes, and   *)
(* an invocation executes at most one verb.                                *)
(***************************************************************************)
VerbPcs ==
  {CreateSteps[i] : i \in 1..Len(CreateSteps)} \cup {KillSteps[i] : i \in 1..Len(KillSteps)}
    \cup {"verb_execute", "wait_until"}

C20_VerbExecutedOnceAfterConfiguration ==
  /\ Count("execute") <= 1
  /\ pc \in VerbPcs => Count("execute") = 1
  /\ calls # <<>> => calls[1].op = "execute"
  /\ Count("execute") = 1
       => /\ nouns = register_nouns(app, NoEntries)
          /\ parser = setup_options_parser(nouns)
          /\ options = namespace(args)
          /\ args.noun \in DOMAIN nouns
          /\ args.verb \in DOMAIN nouns[args.noun].verbs
          /\ calls[1].ret = nouns[args.noun].verbs[args.verb]
          /\ ctx = "Context"

C20_Witness ==
  /\ Done
  /\ ctx = "Context"
  /\ args.verb = "kill"
  /\ Count("execute") = 1
  /\ calls[1].ret = "KillJobCommand"
  /\ Count("kill_job") = 1

(***************************************************************************)
(* job restart.  The verb and the restarter it drives are exercised by     *)
(* test_restart.py; the verb follows the shape of create and kill: every   *)
(* scheduler response goes through context.check_and_log_response.  The    *)
(* health checks answer as in the fixture of the tests (every restarted    *)
(* instance comes up alive).                                               *)
(*   ptext    the number of instances the scheduler runs for the job       *)
(*   options  the namespace: --batch-size and the instances named by the   *)
(*            job key (None when it names none)                            *)
(*   pres     the instances still to be restarted                          *)
(***************************************************************************)
RestartOptions(b, inst) == [batch_size |-> b, instances |-> inst]

\* the instances a restart works on: those of the job key, or every instance
\* the status query reported, in ascending order
instances_to_restart(opts, n) ==
  IF opts.instances.t = "None" THEN sorted(range(0, n)) ELSE opts.instances.v

\* a batch that also takes the instance after it
next_batch_one_more(remaining, b) ==
  SubSeq(remaining, 1, IF Len(remaining) < b + 1 THEN Len(remaining) ELSE b + 1)

\* remaining[:batch_size]
next_batch(remaining, b) ==
  SubSeq(remaining, 1, IF Len(remaining) < b THEN Len(remaining) ELSE b)

\* remaining[batch_size:]
after_batch(remaining, b) ==
  SubSeq(remaining, (IF Len(remaining) < b THEN Len(remaining) ELSE b) + 1, Len(remaining))

RestartCall(batch, r) ==
  [op |-> "restartShards", jobspec |-> NoKey, shards |-> PyList(batch), ret |-> r]

InitRestart ==
  /\ app = "AuroraCommandLine"
  /\ ctx = "Context"
  /\ pc = "restart_status"
  /\ ptext \in {PyInt(n) : n \in 1..MaxInstances}
  /\ options \in {RestartOptions(b, inst) :
                    b \in 1..MaxBatchSize,
                    inst \in {PyNone} \cup
                      ({PyList(sorted(lo..hi)) :
                          lo \in 0..(ptext.v[1] - 1), hi \in 0..(ptext.v[1] - 1)}
                         \ {PyList(<<>>)})}
  /\ args = options
  /\ nouns = NoEntries
  /\ parser = NoEntries
  /\ calls = <<>>
  /\ resp = "OK"
  /\ attempts = 0
  /\ outcome = Pending
  /\ result = Pending
  /\ exitStatus = 0
  /\ pres = PyNone

\* the status query made before any batch, and the check of its response
RestartStatus ==
  /\ pc = "restart_status"
  /\ \E r \in Responses :
       /\ resp' = r
       /\ LogAnswer("get_tasks_status", r)
       /\ IF check_and_log_response(r).kind = "return"
            THEN /\ pres' = PyList(instances_to_restart(options, ptext.v[1]))
                 /\ Continue("restart_batch")
            ELSE /\ pres' = pres
                 /\ Finish(check_and_log_response(r), TRUE)
  /\ UNCHANGED <<app, ctx, args, nouns, parser, options, attempts, ptext>>

\* one turn of the loop: restartShards on the next batch and the check of
\* its response; the verb returns when no instance remains
RestartBatch ==
  /\ pc = "restart_batch"
  /\ IF pres.v = <<>>
       THEN /\ Finish(Return(PyNone), TRUE)
            /\ UNCHANGED <<calls, resp, pres>>
       ELSE \E r \in Responses :
              /\ resp' = r
              /\ calls' = Append(calls, RestartCall(next_batch(pres.v, options.batch_size), r))
              /\ pres' = PyList(after_batch(pres.v, options.batch_size))
              /\ IF check_and_log_response(r).kind = "return"
                   THEN Continue("restart_watch")
                   ELSE Finish(check_and_log_response(r), TRUE)
  /\ UNCHANGED <<app, ctx, args, nouns, parser, options, attempts, ptext>>

\* the instance watcher asks for the status of the batch it watches
RestartWatch ==
  /\ pc = "restart_watch"
  /\ LogAnswer("get_tasks_status", "OK")
  /\ Continue("restart_batch")
  /\ UNCHANGED <<app, ctx, args, nouns, parser, options, resp, attempts, ptext, pres>>

NextRestart ==
  \/ RestartStatus
  \/ RestartBatch
  \/ RestartWatch

SpecRestart == InitRestart /\ [][NextRestart]_vars

\* the restartShards calls of the run, in the order they were made
Batches == SelectSeq(calls, LAMBDA c : c.op = "restartShards")

RECURSIVE Flatten(_)
\* the instances of a sequence of batches, in the order they were sent
Flatten(bs) ==
  IF bs = <<>> THEN <<>> ELSE bs[1].shards.v \o Flatten(Tail(bs))

Restarted == instances_to_restart(options, ptext.v[1])

RestartSucceeded == pc = "done" /\ outcome.kind = "return"

\* C21: a restart that succeeds sends ceil(N/B) restartShards calls, each of
\* at most B instances; the batches taken in order are the instances in
\* ascending order, each instance in exactly one batch; and the first call
\* of the run is a status query.
C21_RestartInAscendingBatches ==
  RestartSucceeded =>
    /\ Len(Batches) = (Len(Restarted) + options.batch_size - 1) \div options.batch_size
    /\ \A i \in 1..Len(Batches) :
         /\ Len(Batches[i].shards.v) >= 1
         /\ Len(Batches[i].shards.v) <= options.batch_size
    /\ Flatten(Batches) = Restarted
    /\ \A i, j \in 1..Len(Restarted) : i < j => Restarted[i] < Restarted[j]
    /\ calls[1].op = "get_tasks_status"

\* a restart of five instances in batches of two has succeeded: three calls,
\* the last one with the one instance left
C21_Witness ==
  /\ RestartSucceeded
  /\ Len(Restarted) = 5
  /\ options.batch_size = 2
  /\ Len(Batches) = 3
  /\ Batches[3].shards.v = <<4>>

\* the initial status query of the restart was answered with an error
StatusQueryFailed == Len(calls) >= 1 /\ calls[1].ret # "OK"

ConfigPaths == {"config.json", "config.aurora"}

ConfigContents == {"job0", "job1"}

\* a load that keeps and serves the cache whatever is_memoized says
loader_load_always_cached(files, cache, path, is_memoized) ==
  IF path \in DOMAIN cache
    THEN [ret |-> cache[path], cache |-> cache]
    ELSE [ret |-> files[path],
          cache |-> [p \in DOMAIN cache \cup {path} |->
                       IF p = path THEN files[path] ELSE cache[p]]]

\* load(path, is_memoized): what it returns and the cache it leaves
loader_load(files, cache, path, is_memoized) ==
  IF is_memoized /\ path \in DOMAIN cache
    THEN [ret |-> cache[path], cache |-> cache]
  ELSE IF is_memoized
    THEN [ret |-> files[path],
          cache |-> [p \in DOMAIN cache \cup {path} |->
                       IF p = path THEN files[path] ELSE cache[p]]]
  ELSE [ret |-> files[path], cache |-> cache]

LoaderCall(op, path, is_memoized, ret) ==
  [op |-> op, path |-> path, is_memoized |-> is_memoized, ret |-> ret]

InitLoad ==
  /\ app = "AuroraConfigLoader"
  /\ ctx = "None"
  /\ pc = "loader"
  /\ args \in [ConfigPaths -> ConfigContents]
  /\ ptext = args
  /\ pres = NoEntries
  /\ nouns = NoEntries
  /\ parser = NoEntries
  /\ options = NoOptions
  /\ calls = <<>>
  /\ resp = "OK"
  /\ attempts = 0
  /\ outcome = Pending
  /\ result = Pending
  /\ exitStatus = 0

\* the file at path is overwritten
WriteFile ==
  /\ pc = "loader"
  /\ Len(calls) < MaxLoads
  /\ \E path \in ConfigPaths, content \in ConfigContents :
       /\ ptext' = [ptext EXCEPT ![path] = content]
       /\ calls' = Append(calls, LoaderCall("write", path, FALSE, content))
  /\ UNCHANGED <<app, ctx, pc, args, nouns, parser, options, resp, attempts, outcome,
                 result, exitStatus, pres>>

\* AuroraConfigLoader.load(path, is_memoized=...)
LoaderLoad ==
  /\ pc = "loader"
  /\ Len(calls) < MaxLoads
  /\ \E path \in ConfigPaths, is_memoized \in BOOLEAN :
       /\ pres' = loader_load(ptext, pres, path, is_memoized).cache
       /\ calls' = Append(calls, LoaderCall("load", path, is_memoized,
                                            loader_load(ptext, pres, path, is_memoized).ret))
  /\ UNCHANGED <<app, ctx, pc, args, nouns, parser, options, resp, attempts, outcome,
                 result, exitStatus, ptext>>

NextLoad ==
  \/ WriteFile
  \/ LoaderLoad

SpecLoad == InitLoad /\ [][NextLoad]_vars

\* the writes of path made before call i
WritesBefore(path, i) ==
  {k \in 1..(i - 1) : calls[k].op = "write" /\ calls[k].path = path}

\* the content of the file at path when call i was made
ContentAt(path, i) ==
  IF WritesBefore(path, i) = {} THEN args[path]
  ELSE calls[CHOOSE k \in WritesBefore(path, i) : \A j \in WritesBefore(path, i) : j <= k].ret

\* the memoized loads of path up to call i
MemoizedLoads(path, i) ==
  {k \in 1..i : calls[k].op = "load" /\ calls[k].path = path /\ calls[k].is_memoized}

FirstMemoizedLoad(path, i) ==
  CHOOSE k \in MemoizedLoads(path, i) : \A j \in MemoizedLoads(path, i) : k <= j

\* C24: every load with is_memoized=True returns what the first memoized
\* load of its path returned, which is the content the file had then,
\* whatever was written since; every load with is_memoized=False returns the
\* content the file has when it is made.
C24_MemoizedLoadKeepsFirstContent ==
  \A i \in 1..Len(calls) :
    calls[i].op = "load" =>
      IF calls[i].is_memoized
        THEN /\ calls[i].ret = calls[FirstMemoizedLoad(calls[i].path, i)].ret
             /\ calls[i].ret = ContentAt(calls[i].path, FirstMemoizedLoad(calls[i].path, i))
        ELSE calls[i].ret = ContentAt(calls[i].path, i)

\* test_load_json_memoized: a memoized load, an overwrite with another
\* content, a memoized load that returns the first content and a load
\* without memoization that returns the new one
C24_Witness ==
  /\ Len(calls) = 4
  /\ \A i \in 1..4 : calls[i].path = "config.json"
  /\ calls[1].op = "load" /\ calls[1].is_memoized /\ calls[1].ret = "job0"
  /\ calls[2].op = "write" /\ calls[2].ret = "job1"
  /\ calls[3].op = "load" /\ calls[3].is_memoized /\ calls[3].ret = "job0"
  /\ calls[4].op = "load" /\ ~calls[4].is_memoized /\ calls[4].ret = "job1"

\* the verb named on the command line is registered, but only under a noun
\* other than the one named: Job.__init__ registers create and kill, the
\* user noun registers get_quota
VerbOfAnotherNoun ==
  /\ app = "JobAndUserCommandLine"
  /\ \/ args.noun = "user" /\ args.verb \in {"create", "kill"}
     \/ args.noun = "job" /\ args.verb = "get_quota"

\* C25: the verb is looked up in the registry of the noun the first lookup
\* chose: a verb that is executed is the entry of the named verb in the
\* named noun's registry, and a verb registered only under another noun is
\* unknown: the invocation ends with an error and nothing was executed or
\* called.
C25_VerbLookupScopedToNoun ==
  /\ \A i \in 1..Len(calls) :
       calls[i].op = "execute" =>
         /\ args.noun \in DOMAIN nouns
         /\ args.verb \in DOMAIN nouns[args.noun].verbs
         /\ calls[i].ret = nouns[args.noun].verbs[args.verb]
  /\ VerbOfAnotherNoun => calls = <<>>
  /\ VerbOfAnotherNoun /\ Done => result.kind = "raise"

\* "job get_quota" on an application whose user noun has get_quota and
\* whose job noun does not: the run ended without executing anything
C25_Witness ==
  /\ Done
  /\ VerbOfAnotherNoun
  /\ args.noun = "job"
  /\ args.verb = "get_quota"
  /\ "get_quota" \in DOMAIN nouns["user"].verbs
  /\ "get_quota" \notin DOMAIN nouns["job"].verbs
  /\ calls = <<>>

\* the create of the run got an OK response checked and went on
CreateSucceeded ==
  /\ CreateInvocation
  /\ Count("create_job") = 1
  /\ resp = "OK"
  /\ pc \in {"create_open", "create_wait", "wait_until", "done"}

\* the run is past the statements that choose the wait
PastCreateWait == pc \in {"wait_until", "done"} /\ ~BrowserFailed

\* C26: a create whose config loads and whose create_job is answered OK
\* waits as --wait_until says and then returns: CreateJobCommand.execute,
\* in client/cli/jobs.py and in cli/jobs.py, waits on running_or_finished
\* for RUNNING, on terminal for FINISHED and not at all for PENDING, and
\* raises no error on the way.
C26_WaitUntilSelectsPredicateAndCompletes ==
  (ptext.t = "choice" /\ pres.cli_create # Pending) =>
    pres.cli_create =
      Return(PyChoice(IF ptext.v[1] = "RUNNING" THEN "running_or_finished"
                      ELSE IF ptext.v[1] = "FINISHED" THEN "terminal"
                      ELSE "none"))

\* what does hold of C26: the create of client/cli/jobs.py, the verb main()
\* dispatches to, starts a wait for RUNNING and FINISHED and none for
\* PENDING, polls only in such a wait, and a create that returned from a
\* wait saw in its last poll a state that satisfies the predicate of its
\* option
ClientCreateWaitsAsAsked ==
  /\ Count("wait_until") <= 1
  /\ Polls # <<>> => Count("wait_until") = 1
  /\ (CreateSucceeded /\ PastCreateWait) =>
       /\ options.wait_until = "PENDING" =>
            Count("wait_until") = 0 /\ outcome = Return(PyNone)
       /\ options.wait_until \in {"RUNNING", "FINISHED"} =>
            /\ Count("wait_until") = 1
            /\ (pc = "done" /\ outcome = Return(PyNone)) =>
                 /\ Polls # <<>>
                 /\ Satisfies(options.wait_until, Polls[Len(Polls)].ret)

MutatingCalls == Cardinality({i \in 1..Len(calls) : calls[i].op \in MutatingOps})

\* C27: an invocation makes at most one mutating scheduler call: create_job
\* and kill_job are each called at most once, a create never calls kill_job
\* and a kill never create_job, whatever was answered and whatever the
\* checks, the browser and the wait did afterwards.
C27_AtMostOneMutatingCall ==
  /\ MutatingCalls <= 1
  /\ Count("create_job") = 1 => CreateInvocation
  /\ Count("kill_job") = 1 => KillInvocation

\* a create that was refused by the scheduler ended after its one create_job
C27_Witness ==
  /\ Done
  /\ CreateInvocation
  /\ Count("create_job") = 1
  /\ resp = "ERROR"
  /\ Count("check_and_log_response") = 1

\* the selected verb was executed and returned
VerbCompleted == Done /\ Count("execute") = 1 /\ outcome.kind = "return"

\* C28: when the selected verb completes without an error,
\* CommandLine.execute returns EXIT_OK.
C28_SuccessReturnsExitOk ==
  VerbCompleted => result = Return(PyInt(EXIT_OK))

\* what does hold of C28: execute then returns None, the value of a
\* Noun.execute without a return statement, and the process started by
\* main() exits with status 0
SuccessReturnsNoneAndExitsZero ==
  VerbCompleted => result = Return(PyNone) /\ exitStatus = 0

\* the calls of the run that open a page in the browser
PageOpenings == {i \in 1..Len(calls) : calls[i].op = "open_page"}

\* the response of the scheduler was checked before call i
CheckedBefore(i) == \E j \in 1..(i - 1) : calls[j].op = "check_and_log_response"

\* C29: in a create and in a kill, the browser is opened only when
\* --open-browser was given, and only after the response of the scheduler
\* was checked and found OK.
C29_BrowserOnlyWhenAskedAndOk ==
  \A i \in PageOpenings :
    /\ options.open_browser
    /\ resp = "OK"
    /\ CheckedBefore(i)

\* what does hold of C29: no page is opened before the response was checked
\* or after a response that is not OK, and a create opens a page only when
\* --open-browser was given
BrowserOnlyAfterOkAndCreateOnlyWhenAsked ==
  \A i \in PageOpenings :
    /\ resp = "OK"
    /\ CheckedBefore(i)
    /\ CreateInvocation => options.open_browser

(***************************************************************************)
(* execute called again on the same CommandLine object: the object keeps   *)
(* self.nouns and self.parser, everything else belongs to the call.  The   *)
(* caller has the previous call's value, or has caught what it raised.     *)
(***************************************************************************)
ExecuteAgain ==
  /\ pc = "done"
  /\ pc' = "start"
  /\ args' \in ArgLists(app)
  /\ options' = NoOptions
  /\ calls' = <<>>
  /\ resp' = "OK"
  /\ attempts' = 0
  /\ outcome' = Pending
  /\ result' = Pending
  /\ exitStatus' = 0
  /\ UNCHANGED <<app, ctx, nouns, parser, ptext, pres>>

NextAgain ==
  \/ Next
  \/ ExecuteAgain

SpecAgain == Init /\ [][NextAgain]_vars

\* the noun names of a registry (or of a grammar) with the verb names of each
RegistryNames(reg) == [n \in DOMAIN reg |-> DOMAIN reg[n].verbs]

GrammarNames(prs) == [n \in DOMAIN prs |-> DOMAIN prs[n]]

\* an earlier execute on this object has registered its nouns and built its
\* grammar from them
CalledBefore == parser # NoEntries

\* C30: execute called again on the same object does not grow the
\* registries: once a call has registered the nouns, no step of that call or
\* of a later one changes the set of noun names or a noun's set of verb
\* names, and the names the second register_nouns leaves are those the
\* first call built its grammar from.
C30_RepeatedExecuteKeepsRegistryNames ==
  [][/\ nouns # NoEntries => RegistryNames(nouns') = RegistryNames(nouns)
     /\ (CalledBefore /\ pc = "start" /\ pc' # "start")
          => RegistryNames(nouns') = GrammarNames(parser)]_vars

\* the second execute on an object with the job and the user noun has
\* registered its nouns again
C30_Witness ==
  /\ CalledBefore
  /\ pc = "setup_options_parser"
  /\ app = "JobAndUserCommandLine"
  /\ DOMAIN nouns = {"job", "user"}
  /\ DOMAIN nouns["job"].verbs = {"create", "kill"}
  /\ DOMAIN nouns["user"].verbs = {"get_quota"}

====
